---- MODULE Spec2Model ----
(***************************************************************************)
(* The tensor engine of minitorch/tensor_ops.py: the low-level procedures  *)
(* _map, _zip and _reduce over (storage, shape, strides) triples, the      *)
(* SimpleOps wrappers that allocate the output and call them, and the      *)
(* backend table built by TensorBackend(SimpleOps).                        *)
(*                                                                         *)
(* A storage is a sequence of values; position p of the code is element    *)
(* p + 1 of the sequence.  A shape, a stride sequence and an index are     *)
(* sequences too; dimension d of the code is element d + 1.                *)
(*                                                                         *)
(* The scalar function fn is a parameter of the engine and opaque to it.   *)
(* It is modelled as a free constructor: a value is a term written in      *)
(* prefix form as a sequence of integers, so two results are equal exactly *)
(* when they apply fn to the same operands in the same order and           *)
(* bracketing.  Whatever holds of the terms holds for every concrete fn.   *)
(***************************************************************************)
EXTENDS Integers, Sequences, FiniteSets

VARIABLES call, pc, out, a, b, ret, err, cnt, allocated, invoked, out2

vars == <<call, pc, out, a, b, ret, err, cnt, allocated, invoked, out2>>

\* ------------------------------------------------------------------ bounds

\* Largest number of dimensions of a tensor handed to the engine.
MaxRank == 2

\* Largest number of elements of a tensor handed to the engine.
MaxSize == 4

\* ------------------------------------------------------------------ values

\* Python's None: the value of res before the first element is folded in.
None == <<>>

\* The float 0.0 that Tensor.zeros fills a new storage with.
Zero == <<0>>

\* fn of tensor_map: an opaque float -> float function.
fn1(x) == <<-1>> \o x

\* fn of tensor_zip and tensor_reduce: an opaque (float, float) -> float function.
fn2(x, y) == <<-2>> \o x \o y

\* storage[pos] is an IndexError outside the storage.
InRange(storage, pos) == pos >= 0 /\ pos < Len(storage)

\* storage[pos]
Get(storage, pos) == storage[pos + 1]

\* storage[pos] = v
Set(storage, pos, v) == [storage EXCEPT ![pos + 1] = v]

\* ------------------------------------------------- index/position arithmetic

RECURSIVE prod(_)
\* operators.prod: the product of a sequence of extents.
prod(shape) == IF shape = <<>> THEN 1 ELSE Head(shape) * prod(Tail(shape))

\* The product of the extents after dimension d (1-based).
SuffixProd(shape, d) == prod(SubSeq(shape, d + 1, Len(shape)))

\* to_index: the row-major (last dimension fastest) index of an ordinal.
to_index(ordinal, shape) ==
    [d \in 1..Len(shape) |-> (ordinal \div SuffixProd(shape, d)) % shape[d]]

RECURSIVE Dot(_, _, _)
Dot(index, strides, d) ==
    IF d = 0 THEN 0 ELSE index[d] * strides[d] + Dot(index, strides, d - 1)

\* index_to_position: the dot product of an index and the strides.
index_to_position(index, strides) == Dot(index, strides, Len(index))

\* broadcast_index: the index of small_shape that big_index broadcasts from,
\* the shapes aligned at their trailing dimension.
broadcast_index(big_index, big_shape, small_shape) ==
    [i \in 1..Len(small_shape) |->
        IF small_shape[i] = 1 THEN 0
        ELSE big_index[i + (Len(big_shape) - Len(small_shape))]]

\* Extent of dimension i of the longer rank n, for a shape padded with leading 1s.
Padded(shape, n, i) ==
    IF i > n - Len(shape) THEN shape[i - (n - Len(shape))] ELSE 1

MaxOf(x, y) == IF x >= y THEN x ELSE y

\* shape_broadcast: the broadcast of two shapes, or the shape-mismatch error
\* (IndexingError) when an aligned pair differs and neither extent is 1.
shape_broadcast(shape_a, shape_b) ==
    LET n == MaxOf(Len(shape_a), Len(shape_b))
        bad == \E i \in 1..n :
                   /\ Padded(shape_a, n, i) # Padded(shape_b, n, i)
                   /\ Padded(shape_a, n, i) # 1
                   /\ Padded(shape_b, n, i) # 1
    IN IF bad THEN [err |-> "IndexingError", shape |-> <<>>]
       ELSE [err |-> "none",
             shape |-> [i \in 1..n |->
                          IF Padded(shape_a, n, i) = 1 THEN Padded(shape_b, n, i)
                          ELSE Padded(shape_a, n, i)]]

\* ------------------------------------------------------------- tensor_map

\* The state of one run of an engine procedure: the storages it was handed,
\* the number of writes made at each output position, and the error raised.
MapState(out_, in_storage) ==
    [out |-> out_, in_storage |-> in_storage,
     cnt |-> [p \in 1..Len(out_) |-> 0], err |-> "none"]

\* map_body with the input index taken from the leading components of
\* out_index instead of the trailing-aligned ones.
map_body_leading(st, i, out_shape, out_strides, in_shape, in_strides) ==
    LET out_index == to_index(i, out_shape)
        in_index == [d \in 1..Len(in_shape) |->
                        IF in_shape[d] = 1 THEN 0 ELSE out_index[d]]
        out_pos == index_to_position(out_index, out_strides)
        in_pos == index_to_position(in_index, in_strides)
    IN IF ~InRange(st.in_storage, in_pos) \/ ~InRange(st.out, out_pos)
       THEN [st EXCEPT !.err = "IndexError"]
       ELSE [st EXCEPT !.out = Set(@, out_pos, fn1(Get(st.in_storage, in_pos))),
                       !.cnt = Set(@, out_pos, Get(@, out_pos) + 1)]

\* map_body storing the result into in_storage as well (an in-place update).
map_body_inplace(st, i, out_shape, out_strides, in_shape, in_strides) ==
    LET out_index == to_index(i, out_shape)
        in_index == broadcast_index(out_index, out_shape, in_shape)
        out_pos == index_to_position(out_index, out_strides)
        in_pos == index_to_position(in_index, in_strides)
    IN IF ~InRange(st.in_storage, in_pos) \/ ~InRange(st.out, out_pos)
       THEN [st EXCEPT !.err = "IndexError"]
       ELSE [st EXCEPT !.out = Set(@, out_pos, fn1(Get(st.in_storage, in_pos))),
                       !.in_storage = Set(@, in_pos, fn1(Get(st.in_storage, in_pos))),
                       !.cnt = Set(@, out_pos, Get(@, out_pos) + 1)]

\* One iteration of the loop of _map.
map_body(st, i, out_shape, out_strides, in_shape, in_strides) ==
    LET out_index == to_index(i, out_shape)
        in_index == broadcast_index(out_index, out_shape, in_shape)
        out_pos == index_to_position(out_index, out_strides)
        in_pos == index_to_position(in_index, in_strides)
    IN IF ~InRange(st.in_storage, in_pos) \/ ~InRange(st.out, out_pos)
       THEN [st EXCEPT !.err = "IndexError"]
       ELSE [st EXCEPT !.out = Set(@, out_pos, fn1(Get(st.in_storage, in_pos))),
                       !.cnt = Set(@, out_pos, Get(@, out_pos) + 1)]

RECURSIVE map_loop(_, _, _, _, _, _, _)
\* for i in range(n): the iterations i, i + 1, ..., n - 1, until one raises.
map_loop(st, i, n, out_shape, out_strides, in_shape, in_strides) ==
    IF i >= n \/ st.err # "none" THEN st
    ELSE map_loop(map_body(st, i, out_shape, out_strides, in_shape, in_strides),
                  i + 1, n, out_shape, out_strides, in_shape, in_strides)

\* tensor_map(fn)._map
_map(out_, out_shape, out_strides, in_storage, in_shape, in_strides) ==
    map_loop(MapState(out_, in_storage), 0, prod(out_shape),
             out_shape, out_strides, in_shape, in_strides)

\* ------------------------------------------------------------- tensor_zip

ZipState(out_, a_storage, b_storage) ==
    [out |-> out_, a_storage |-> a_storage, b_storage |-> b_storage,
     cnt |-> [p \in 1..Len(out_) |-> 0], err |-> "none"]

\* zip_write storing the result at the position of a instead of out.
zip_write_at_a(st, out_pos, a_pos, b_pos) ==
    IF \/ ~InRange(st.a_storage, a_pos)
       \/ ~InRange(st.b_storage, b_pos)
       \/ ~InRange(st.out, a_pos)
    THEN [st EXCEPT !.err = "IndexError"]
    ELSE [st EXCEPT
            !.out = Set(@, a_pos,
                        fn2(Get(st.a_storage, a_pos), Get(st.b_storage, b_pos))),
            !.cnt = Set(@, a_pos, Get(@, a_pos) + 1)]

\* The read of both operands and the write of out that end an iteration of
\* either loop of _zip.
zip_write(st, out_pos, a_pos, b_pos) ==
    IF \/ ~InRange(st.a_storage, a_pos)
       \/ ~InRange(st.b_storage, b_pos)
       \/ ~InRange(st.out, out_pos)
    THEN [st EXCEPT !.err = "IndexError"]
    ELSE [st EXCEPT
            !.out = Set(@, out_pos,
                        fn2(Get(st.a_storage, a_pos), Get(st.b_storage, b_pos))),
            !.cnt = Set(@, out_pos, Get(@, out_pos) + 1)]

\* zip_fast_body reading b through the strides of a.
zip_fast_body_a_strides(st, ordinal, out_shape, out_strides, a_strides, b_strides) ==
    LET out_index == to_index(ordinal, out_shape)
    IN zip_write(st,
                 index_to_position(out_index, out_strides),
                 index_to_position(out_index, a_strides),
                 index_to_position(out_index, a_strides))

\* One iteration of the loop taken when the three shapes are equal.
zip_fast_body(st, ordinal, out_shape, out_strides, a_strides, b_strides) ==
    LET out_index == to_index(ordinal, out_shape)
    IN zip_write(st,
                 index_to_position(out_index, out_strides),
                 index_to_position(out_index, a_strides),
                 index_to_position(out_index, b_strides))

\* for i in range(len(shape)): index[i] = 0 if shape[i] == 1 else out_index[i]
LeadingIndex(out_index, shape) ==
    [i \in 1..Len(shape) |-> IF shape[i] = 1 THEN 0 ELSE out_index[i]]

\* out_index[i] is an IndexError for i beyond the rank of out.
LeadingIndexRaises(out_index, shape) ==
    \E i \in 1..Len(shape) : shape[i] # 1 /\ i > Len(out_index)

\* zip_general_body deriving the index of b from the shape of a.
zip_general_body_b_from_a(st, ordinal, out_shape, out_strides, a_shape, a_strides, b_shape, b_strides) ==
    LET out_index == to_index(ordinal, out_shape)
    IN IF \/ LeadingIndexRaises(out_index, a_shape)
          \/ LeadingIndexRaises(out_index, b_shape)
       THEN [st EXCEPT !.err = "IndexError"]
       ELSE zip_write(st,
                index_to_position(out_index, out_strides),
                index_to_position(LeadingIndex(out_index, a_shape), a_strides),
                index_to_position(LeadingIndex(out_index, a_shape), b_strides))

\* One iteration of the broadcasting loop.
zip_general_body(st, ordinal, out_shape, out_strides, a_shape, a_strides, b_shape, b_strides) ==
    LET out_index == to_index(ordinal, out_shape)
    IN IF \/ LeadingIndexRaises(out_index, a_shape)
          \/ LeadingIndexRaises(out_index, b_shape)
       THEN [st EXCEPT !.err = "IndexError"]
       ELSE zip_write(st,
                index_to_position(out_index, out_strides),
                index_to_position(LeadingIndex(out_index, a_shape), a_strides),
                index_to_position(LeadingIndex(out_index, b_shape), b_strides))

RECURSIVE zip_fast(_, _, _, _, _, _, _)
\* The loop of the equal-shapes branch of _zip.
zip_fast(st, ordinal, n, out_shape, out_strides, a_strides, b_strides) ==
    IF ordinal >= n \/ st.err # "none" THEN st
    ELSE zip_fast(zip_fast_body(st, ordinal, out_shape, out_strides,
                                a_strides, b_strides),
                  ordinal + 1, n, out_shape, out_strides, a_strides, b_strides)

RECURSIVE zip_general(_, _, _, _, _, _, _, _, _)
\* The loop of the else branch of _zip.
zip_general(st, ordinal, n, out_shape, out_strides, a_shape, a_strides, b_shape, b_strides) ==
    IF ordinal >= n \/ st.err # "none" THEN st
    ELSE zip_general(zip_general_body(st, ordinal, out_shape, out_strides,
                                      a_shape, a_strides, b_shape, b_strides),
                     ordinal + 1, n, out_shape, out_strides,
                     a_shape, a_strides, b_shape, b_strides)

\* tensor_zip(fn)._zip
_zip(out_, out_shape, out_strides, a_storage, a_shape, a_strides, b_storage, b_shape, b_strides) ==
    IF a_shape = b_shape /\ a_shape = out_shape /\ b_shape = out_shape
    THEN zip_fast(ZipState(out_, a_storage, b_storage), 0, prod(out_shape),
                  out_shape, out_strides, a_strides, b_strides)
    ELSE zip_general(ZipState(out_, a_storage, b_storage), 0, prod(out_shape),
                     out_shape, out_strides,
                     a_shape, a_strides, b_shape, b_strides)

\* ---------------------------------------------------------- tensor_reduce

ReduceState(out_, a_storage) ==
    [out |-> out_, a_storage |-> a_storage,
     cnt |-> [p \in 1..Len(out_) |-> 0], err |-> "none"]

\* reduce_step combining as fn(element, res) instead of fn(res, element).
reduce_step_swapped(acc, reduce_pos, out_index, a_storage, a_strides, reduce_dim) ==
    LET a_index == [out_index EXCEPT ![reduce_dim + 1] = reduce_pos]
        a_storage_pos == index_to_position(a_index, a_strides)
    IN IF ~InRange(a_storage, a_storage_pos)
       THEN [acc EXCEPT !.err = "IndexError"]
       ELSE IF acc.res = None
            THEN [acc EXCEPT !.res = Get(a_storage, a_storage_pos)]
            ELSE [acc EXCEPT !.res = fn2(Get(a_storage, a_storage_pos), acc.res)]

\* One iteration of the inner loop of _reduce: res is None before the first
\* element, which then becomes the accumulator as it is.
reduce_step(acc, reduce_pos, out_index, a_storage, a_strides, reduce_dim) ==
    LET a_index == [out_index EXCEPT ![reduce_dim + 1] = reduce_pos]
        a_storage_pos == index_to_position(a_index, a_strides)
    IN IF ~InRange(a_storage, a_storage_pos)
       THEN [acc EXCEPT !.err = "IndexError"]
       ELSE IF acc.res = None
            THEN [acc EXCEPT !.res = Get(a_storage, a_storage_pos)]
            ELSE [acc EXCEPT !.res = fn2(acc.res, Get(a_storage, a_storage_pos))]

RECURSIVE reduce_fold(_, _, _, _, _, _, _)
\* for reduce_pos in range(dim_size)
reduce_fold(acc, reduce_pos, dim_size, out_index, a_storage, a_strides, reduce_dim) ==
    IF reduce_pos >= dim_size \/ acc.err # "none" THEN acc
    ELSE reduce_fold(reduce_step(acc, reduce_pos, out_index, a_storage,
                                 a_strides, reduce_dim),
                     reduce_pos + 1, dim_size, out_index, a_storage, a_strides,
                     reduce_dim)

\* One iteration of the outer loop of _reduce.
reduce_body(st, out_pos, dim_size, out_shape, out_strides, a_strides, reduce_dim) ==
    LET out_index == to_index(out_pos, out_shape)
        out_storage_pos == index_to_position(out_index, out_strides)
        acc == reduce_fold([res |-> None, err |-> "none"], 0, dim_size,
                           out_index, st.a_storage, a_strides, reduce_dim)
    IN IF acc.err # "none" \/ ~InRange(st.out, out_storage_pos)
       THEN [st EXCEPT !.err = "IndexError"]
       ELSE [st EXCEPT !.out = Set(@, out_storage_pos, acc.res),
                       !.cnt = Set(@, out_storage_pos,
                                   Get(@, out_storage_pos) + 1)]

RECURSIVE reduce_loop(_, _, _, _, _, _, _, _)
\* for out_pos in range(len(out))
reduce_loop(st, out_pos, n, dim_size, out_shape, out_strides, a_strides, reduce_dim) ==
    IF out_pos >= n \/ st.err # "none" THEN st
    ELSE reduce_loop(reduce_body(st, out_pos, dim_size, out_shape, out_strides,
                                 a_strides, reduce_dim),
                     out_pos + 1, n, dim_size, out_shape, out_strides,
                     a_strides, reduce_dim)

\* tensor_reduce(fn)._reduce
_reduce(out_, out_shape, out_strides, a_storage, a_shape, a_strides, reduce_dim) ==
    reduce_loop(ReduceState(out_, a_storage), 0, Len(out_),
                a_shape[reduce_dim + 1], out_shape, out_strides, a_strides,
                reduce_dim)

\* ---------------------------------------------------------------- tensors

\* A tensor as the wrappers see it: Tensor.tuple() is (storage, shape, strides).
Tensor(storage, shape, strides) ==
    [storage |-> storage, shape |-> shape, strides |-> strides]

\* No tensor: an absent argument (out is None) or no returned value.
NoTensor == Tensor(<<>>, <<>>, <<>>)

\* The strides of a contiguous (row-major) tensor of a shape.
strides_from_shape(shape) == [d \in 1..Len(shape) |-> SuffixProd(shape, d)]

\* Tensor.zeros(shape): a new contiguous tensor filled with 0.0.
zeros(shape) ==
    Tensor([p \in 1..prod(shape) |-> Zero], shape, strides_from_shape(shape))

\* ------------------------------------------------------------- SimpleOps

\* What a call of a wrapper leaves behind: the output tensor it allocated or
\* was given, its operands, the returned tensor, the error raised, the writes
\* made per output position, and whether it allocated an output and whether
\* it invoked the engine procedure.
Outcome(out_, a_, b_, ret_, err_, cnt_, allocated_, invoked_) ==
    [out |-> out_, a |-> a_, b |-> b_, ret |-> ret_, err |-> err_,
     cnt |-> cnt_, allocated |-> allocated_, invoked |-> invoked_]

\* SimpleOps.map(fn): ret(a, out=None)
map_ret(a_, out_) ==
    LET o == IF out_ = NoTensor THEN zeros(a_.shape) ELSE out_
        r == _map(o.storage, o.shape, o.strides,
                  a_.storage, a_.shape, a_.strides)
        o2 == [o EXCEPT !.storage = r.out]
    IN Outcome(o2, [a_ EXCEPT !.storage = r.in_storage], NoTensor,
               IF r.err = "none" THEN o2 ELSE NoTensor,
               r.err, r.cnt, out_ = NoTensor, TRUE)

\* zip_ret allocating the output (of the shape of a) before it broadcasts the
\* shapes.
zip_ret_alloc_first(a_, b_) ==
    LET o0 == zeros(a_.shape)
        c == IF a_.shape # b_.shape THEN shape_broadcast(a_.shape, b_.shape)
             ELSE [err |-> "none", shape |-> a_.shape]
    IN IF c.err # "none"
       THEN Outcome(o0, a_, b_, NoTensor, c.err, <<>>, TRUE, FALSE)
       ELSE LET o == zeros(c.shape)
                r == _zip(o.storage, o.shape, o.strides,
                          a_.storage, a_.shape, a_.strides,
                          b_.storage, b_.shape, b_.strides)
                o2 == [o EXCEPT !.storage = r.out]
            IN Outcome(o2, [a_ EXCEPT !.storage = r.a_storage],
                       [b_ EXCEPT !.storage = r.b_storage],
                       IF r.err = "none" THEN o2 ELSE NoTensor,
                       r.err, r.cnt, TRUE, TRUE)

\* SimpleOps.zip(fn): ret(a, b)
zip_ret(a_, b_) ==
    LET c == IF a_.shape # b_.shape THEN shape_broadcast(a_.shape, b_.shape)
             ELSE [err |-> "none", shape |-> a_.shape]
    IN IF c.err # "none"
       THEN Outcome(NoTensor, a_, b_, NoTensor, c.err, <<>>, FALSE, FALSE)
       ELSE LET o == zeros(c.shape)
                r == _zip(o.storage, o.shape, o.strides,
                          a_.storage, a_.shape, a_.strides,
                          b_.storage, b_.shape, b_.strides)
                o2 == [o EXCEPT !.storage = r.out]
            IN Outcome(o2, [a_ EXCEPT !.storage = r.a_storage],
                       [b_ EXCEPT !.storage = r.b_storage],
                       IF r.err = "none" THEN o2 ELSE NoTensor,
                       r.err, r.cnt, TRUE, TRUE)

\* SimpleOps.reduce(fn, start): ret(a, dim)
reduce_ret(a_, dim, start) ==
    LET out_shape == [a_.shape EXCEPT ![dim + 1] = 1]
        z == zeros(out_shape)
        o == [z EXCEPT !.storage = [p \in 1..Len(z.storage) |-> start]]
        r == _reduce(o.storage, o.shape, o.strides,
                     a_.storage, a_.shape, a_.strides, dim)
        o2 == [o EXCEPT !.storage = r.out]
    IN Outcome(o2, [a_ EXCEPT !.storage = r.a_storage], NoTensor,
               IF r.err = "none" THEN o2 ELSE NoTensor,
               r.err, r.cnt, TRUE, TRUE)

\* TensorOps.matrix_multiply
TensorOps_matrix_multiply(a_, b_) ==
    Outcome(NoTensor, a_, b_, NoTensor, "NotImplementedError", <<>>, FALSE, FALSE)

\* SimpleOps.matrix_multiply returning a zero tensor instead of raising.
SimpleOps_matrix_multiply_zeros(a_, b_) ==
    LET o == zeros(<<a_.shape[1], b_.shape[Len(b_.shape)]>>)
    IN Outcome(o, a_, b_, o, "none", <<>>, TRUE, FALSE)

\* SimpleOps.matrix_multiply
SimpleOps_matrix_multiply(a_, b_) ==
    Outcome(NoTensor, a_, b_, NoTensor, "NotImplementedError", <<>>, FALSE, FALSE)

\* The attribute matrix_multiply of a class: SimpleOps overrides TensorOps.
matrix_multiply_of(ops, a_, b_) ==
    IF ops = "SimpleOps" THEN SimpleOps_matrix_multiply(a_, b_)
    ELSE TensorOps_matrix_multiply(a_, b_)

\* TensorBackend(ops): the entries of the table the model uses.  A reduction
\* is bound with its start value; matrix_multiply is ops.matrix_multiply.
TensorBackend(ops) ==
    [add_reduce |-> [start |-> <<0>>],
     mul_reduce |-> [start |-> <<1>>],
     matrix_multiply |-> ops]

\* SimpleBackend = TensorBackend(SimpleOps)
SimpleBackend == TensorBackend("SimpleOps")

\* ------------------------------------------------------------- the callers

\* The shapes of rank 1..MaxRank with extents lo..MaxSize and at most MaxSize
\* elements.
Shapes(lo) ==
    {s \in UNION {[1..r -> lo..MaxSize] : r \in 1..MaxRank} : prod(s) <= MaxSize}

\* The orders in which r dimensions can be laid out in memory.
Perms(r) ==
    {q \in [1..r -> 1..r] : \A i, j \in 1..r : i # j => q[i] # q[j]}

RECURSIVE ProdOver(_, _, _)
\* shape[q[k]] * ... * shape[q[Len(shape)]]
ProdOver(shape, q, k) ==
    IF k > Len(shape) THEN 1 ELSE shape[q[k]] * ProdOver(shape, q, k + 1)

\* The strides of a tensor of this shape whose dimensions lie in memory in the
\* order q[1] (outermost) .. q[r] (innermost): a contiguous tensor (q the
\* identity) or a permuted view of one.
Layout(shape, q) ==
    [d \in 1..Len(shape) |->
        ProdOver(shape, q, (CHOOSE k \in 1..Len(shape) : q[k] = d) + 1)]

Layouts(shape) == {Layout(shape, q) : q \in Perms(Len(shape))}

\* A storage of n values, each naming the tensor (tag) and the position it
\* stands at, so that a result shows which elements it was computed from.
Fill(tag, n) == [p \in 1..n |-> <<10 * tag + (p - 1)>>]

\* The tensors of the bounded shapes in every layout.
Tensors(tag, lo) ==
    UNION {{Tensor(Fill(tag, prod(s)), s, st) : st \in Layouts(s)} : s \in Shapes(lo)}

\* The output tensors of a shape, holding earlier content.
OutTensors(shape) ==
    {Tensor(Fill(3, prod(shape)), shape, st) : st \in Layouts(shape)}

\* small broadcasts to big, aligned at the trailing dimension.
BroadcastsTo(small, big) ==
    /\ Len(small) <= Len(big)
    /\ \A i \in 1..Len(small) :
          small[i] = 1 \/ small[i] = big[i + (Len(big) - Len(small))]

Call(op, out_, a_, b_, dim, start) ==
    [op |-> op, out |-> out_, a |-> a_, b |-> b_, dim |-> dim, start |-> start]

\* The operands a and b, the operands of a reduction (an extent may be 0) and
\* the caller's output tensors.
ATensors == Tensors(1, 1)

BTensors == Tensors(2, 1)

RTensors == Tensors(1, 0)

CTensors == Tensors(3, 1)

\* An operand of _zip: of the rank of out and broadcasting to it.
ZipOperand(x, o) ==
    Len(x.shape) = Len(o.shape) /\ BroadcastsTo(x.shape, o.shape)

\* The entry points of matrix_multiply.
MatMulEntries ==
    {"TensorOps.matrix_multiply", "SimpleOps.matrix_multiply",
     "SimpleBackend.matrix_multiply"}

\* -------------------------------------------------------------- the machine

\* The backend table is built and no call has been made.
Init ==
    /\ call = Call("none", NoTensor, NoTensor, NoTensor, 0, None)
    /\ pc = "idle"
    /\ out = NoTensor
    /\ a = NoTensor
    /\ b = NoTensor
    /\ ret = NoTensor
    /\ err = "none"
    /\ cnt = <<>>
    /\ allocated = FALSE
    /\ invoked = FALSE
    /\ out2 = <<>>

\* The call c is made and ends: it returns or raises, leaving o behind.
Do(c, o) ==
    /\ call' = c
    /\ pc' = IF o.err = "none" THEN "returned" ELSE "raised"
    /\ out' = o.out
    /\ a' = o.a
    /\ b' = o.b
    /\ ret' = o.ret
    /\ err' = o.err
    /\ cnt' = o.cnt
    /\ allocated' = o.allocated
    /\ invoked' = o.invoked
    /\ UNCHANGED out2

\* The engine procedure named in a call, run on the given tensors.
Engine(op, o, x, y, dim) ==
    IF op = "_map"
    THEN LET r == _map(o.storage, o.shape, o.strides, x.storage, x.shape, x.strides)
         IN Outcome([o EXCEPT !.storage = r.out], [x EXCEPT !.storage = r.in_storage],
                    y, NoTensor, r.err, r.cnt, FALSE, TRUE)
    ELSE IF op = "_zip"
    THEN LET r == _zip(o.storage, o.shape, o.strides, x.storage, x.shape, x.strides,
                       y.storage, y.shape, y.strides)
         IN Outcome([o EXCEPT !.storage = r.out], [x EXCEPT !.storage = r.a_storage],
                    [y EXCEPT !.storage = r.b_storage], NoTensor, r.err, r.cnt,
                    FALSE, TRUE)
    ELSE LET r == _reduce(o.storage, o.shape, o.strides, x.storage, x.shape, x.strides,
                          dim)
         IN Outcome([o EXCEPT !.storage = r.out], [x EXCEPT !.storage = r.a_storage],
                    y, NoTensor, r.err, r.cnt, FALSE, TRUE)

\* _map(out, ..., in_storage, ...) with in_shape broadcasting to out_shape.
Map ==
    /\ pc = "idle"
    /\ \E o \in CTensors : \E x \in ATensors :
        /\ BroadcastsTo(x.shape, o.shape)
        /\ Do(Call("_map", o, x, NoTensor, 0, None),
              Engine("_map", o, x, NoTensor, 0))

\* fn_map(a) and fn_map(a, out), a broadcasting to out.
MapRet ==
    /\ pc = "idle"
    /\ \E o \in CTensors \cup {NoTensor} : \E x \in ATensors :
        /\ o # NoTensor => BroadcastsTo(x.shape, o.shape)
        /\ Do(Call("map", o, x, NoTensor, 0, None), map_ret(x, o))

\* _zip(out, ..., a_storage, ..., b_storage, ...) with both operands of the
\* rank of out and broadcasting to it.
Zip ==
    /\ pc = "idle"
    /\ \E o \in CTensors : \E x \in ATensors : \E y \in BTensors :
        /\ ZipOperand(x, o)
        /\ ZipOperand(y, o)
        /\ Do(Call("_zip", o, x, y, 0, None), Engine("_zip", o, x, y, 0))

\* fn_zip(a, b) for any two tensors.
ZipRet ==
    /\ pc = "idle"
    /\ \E x \in ATensors : \E y \in BTensors :
        Do(Call("zip", NoTensor, x, y, 0, None), zip_ret(x, y))

\* _reduce(out, ..., a_storage, ..., reduce_dim) with out_shape the shape of a
\* but for extent 1 at reduce_dim.
Reduce ==
    /\ pc = "idle"
    /\ \E x \in RTensors : \E d \in 0..(Len(x.shape) - 1) :
        \E o \in OutTensors([x.shape EXCEPT ![d + 1] = 1]) :
            Do(Call("_reduce", o, x, NoTensor, d, None),
               Engine("_reduce", o, x, NoTensor, d))

\* fn_reduce(a, dim) for the two reductions of the backend table.
ReduceRet ==
    /\ pc = "idle"
    /\ \E x \in RTensors : \E d \in 0..(Len(x.shape) - 1) :
        \E start \in {SimpleBackend.add_reduce.start,
                      SimpleBackend.mul_reduce.start} :
            Do(Call("reduce", NoTensor, x, NoTensor, d, start),
               reduce_ret(x, d, start))

\* TensorOps.matrix_multiply(a, b)
MatMulTensorOps ==
    /\ pc = "idle"
    /\ \E x \in ATensors : \E y \in BTensors :
        Do(Call("TensorOps.matrix_multiply", NoTensor, x, y, 0, None),
           TensorOps_matrix_multiply(x, y))

\* SimpleOps.matrix_multiply(a, b)
MatMulSimpleOps ==
    /\ pc = "idle"
    /\ \E x \in ATensors : \E y \in BTensors :
        Do(Call("SimpleOps.matrix_multiply", NoTensor, x, y, 0, None),
           SimpleOps_matrix_multiply(x, y))

\* SimpleBackend.matrix_multiply(a, b)
MatMulBackend ==
    /\ pc = "idle"
    /\ \E x \in ATensors : \E y \in BTensors :
        Do(Call("SimpleBackend.matrix_multiply", NoTensor, x, y, 0, None),
           matrix_multiply_of(SimpleBackend.matrix_multiply, x, y))

\* The caller invokes the same engine procedure once more, on the operands as
\* the first invocation left them and a fresh output buffer with the content
\* the first one had.
Reinvoke ==
    /\ pc = "returned" /\ call.op \in {"_map", "_zip", "_reduce"}
    /\ pc' = "reinvoked"
    /\ out2' = Engine(call.op, call.out, a, b, call.dim).out.storage
    /\ UNCHANGED <<call, out, a, b, ret, err, cnt, allocated, invoked>>

\* The caller is done with the result, or has handled the error.
Discard ==
    /\ pc \in {"returned", "raised", "reinvoked"}
    /\ call' = Call("none", NoTensor, NoTensor, NoTensor, 0, None)
    /\ pc' = "idle"
    /\ out' = NoTensor
    /\ a' = NoTensor
    /\ b' = NoTensor
    /\ ret' = NoTensor
    /\ err' = "none"
    /\ cnt' = <<>>
    /\ allocated' = FALSE
    /\ invoked' = FALSE
    /\ out2' = <<>>

Next ==
    \/ Map
    \/ MapRet
    \/ Zip
    \/ ZipRet
    \/ Reduce
    \/ ReduceRet
    \/ MatMulTensorOps
    \/ MatMulSimpleOps
    \/ MatMulBackend
    \/ Reinvoke
    \/ Discard

Spec == Init /\ [][Next]_vars

\* ---------------------------------------------------------------- properties

\* The indices of a shape.
Indices(shape) ==
    {i \in [1..Len(shape) -> 0..(MaxSize - 1)] :
        \A d \in 1..Len(shape) : i[d] < shape[d]}

\* The value of tensor t at an index.
At(t, index) == Get(t.storage, index_to_position(index, t.strides))

\* The index of shape that index broadcasts from, the shapes aligned at the
\* trailing dimension: 0 where the extent is 1, else the aligned component.
TrailingIndex(index, shape) ==
    [i \in 1..Len(shape) |->
        IF shape[i] = 1 THEN 0 ELSE index[Len(index) - Len(shape) + i]]

\* Two shapes have an aligned pair of extents that differ, neither being 1.
Mismatch(shape_a, shape_b) ==
    LET n == MaxOf(Len(shape_a), Len(shape_b))
    IN \E i \in 1..n :
          /\ Padded(shape_a, n, i) # Padded(shape_b, n, i)
          /\ Padded(shape_a, n, i) # 1
          /\ Padded(shape_b, n, i) # 1

\* The broadcast of two compatible shapes: the larger extent of each pair.
BroadcastShape(shape_a, shape_b) ==
    LET n == MaxOf(Len(shape_a), Len(shape_b))
    IN [i \in 1..n |-> MaxOf(Padded(shape_a, n, i), Padded(shape_b, n, i))]

\* Element k along dimension dim (0-based) of t, at the other components of index.
Along(t, index, dim, k) == At(t, [index EXCEPT ![dim + 1] = k])

RECURSIVE FoldLeft(_, _, _, _, _, _)
\* fn(...fn(fn(acc, x_k), x_k+1)..., x_n-1) over the elements along dim.
FoldLeft(acc, t, index, dim, k, n) ==
    IF k >= n THEN acc
    ELSE FoldLeft(fn2(acc, Along(t, index, dim, k)), t, index, dim, k + 1, n)

EngineOps == {"_map", "_zip", "_reduce"}

\* C1: after _map returns (called directly or by the map wrapper), out at every
\* index of out_shape is fn of the input at the trailing-aligned broadcast of
\* that index into in_shape.
C1_MapBroadcast ==
    (pc = "returned" /\ call.op \in {"_map", "map"}) =>
        \A index \in Indices(out.shape) :
            At(out, index) = fn1(At(call.a, TrailingIndex(index, call.a.shape)))

\* C1 witness: _map has returned for an input of smaller rank and more than one
\* element and an output that is not laid out row-major.
C1_Witness ==
    /\ pc = "returned" /\ call.op = "_map"
    /\ Len(call.a.shape) < Len(out.shape)
    /\ prod(call.a.shape) > 1
    /\ out.strides # strides_from_shape(out.shape)
    /\ call.a.strides = strides_from_shape(call.a.shape)

\* C2: after _zip returns for operands of the rank of out that broadcast to it,
\* out at every index is fn of a and b at that index with 0 put where the
\* operand's extent is 1.
C2_ZipGeneral ==
    (pc = "returned" /\ call.op = "_zip") =>
        \A index \in Indices(out.shape) :
            At(out, index) =
                fn2(At(call.a, [d \in 1..Len(index) |->
                               IF call.a.shape[d] = 1 THEN 0 ELSE index[d]]),
                    At(call.b, [d \in 1..Len(index) |->
                               IF call.b.shape[d] = 1 THEN 0 ELSE index[d]]))

\* C2 witness: _zip has returned from its broadcasting loop with both operands
\* broadcast along different dimensions.
C2_Witness ==
    /\ pc = "returned" /\ call.op = "_zip"
    /\ call.a.shape # out.shape /\ call.b.shape # out.shape
    /\ call.a.shape # call.b.shape
    /\ prod(call.a.shape) > 1 /\ prod(call.b.shape) > 1

\* C3: the zip wrapper, for any two broadcast-compatible tensors (of different
\* rank too), returns a tensor of the broadcast shape whose value at every index
\* is fn of a and b at the trailing-aligned broadcasts of that index.
C3_ZipRetBroadcast ==
    (call.op = "zip" /\ ~Mismatch(call.a.shape, call.b.shape)) =>
        /\ pc = "returned"
        /\ ret.shape = BroadcastShape(call.a.shape, call.b.shape)
        /\ \A index \in Indices(ret.shape) :
              At(ret, index) =
                  fn2(At(call.a, TrailingIndex(index, call.a.shape)),
                      At(call.b, TrailingIndex(index, call.b.shape)))

\* C4: the reduce wrapper yields at every output index the fold that starts
\* from start: fn(...fn(fn(start, x_0), x_1)..., x_n-1), and start for n = 0.
C4_ReduceFromStart ==
    (call.op = "reduce" /\ pc = "returned") =>
        \A index \in Indices(ret.shape) :
            At(ret, index) =
                FoldLeft(call.start, call.a, index, call.dim, 0,
                         call.a.shape[call.dim + 1])

\* C5: _reduce writes at every output index the left-to-right fold of the
\* elements along reduce_dim in increasing order, starting from the first:
\* fn(...fn(fn(x_0, x_1), x_2)..., x_n-1).
C5_ReduceOrder ==
    (pc = "returned" /\ call.op \in {"_reduce", "reduce"}
       /\ call.a.shape[call.dim + 1] >= 1) =>
        \A index \in Indices(out.shape) :
            At(out, index) =
                FoldLeft(Along(call.a, index, call.dim, 0), call.a, index,
                         call.dim, 1, call.a.shape[call.dim + 1])

\* C5 witness: _reduce has returned from folding at least three elements per
\* output position, for more than one output position.
C5_Witness ==
    /\ pc = "returned" /\ call.op = "_reduce"
    /\ call.a.shape[call.dim + 1] >= 3
    /\ Len(call.a.shape) >= 2

\* C6: when an invocation of _map, _zip or _reduce returns, and
\* product(out_shape) = len(out), every position of out was written exactly
\* once.
C6_ExactlyOnce ==
    (pc = "returned" /\ invoked /\ prod(out.shape) = Len(out.storage)) =>
        /\ Len(cnt) = Len(out.storage)
        /\ \A p \in 1..Len(cnt) : cnt[p] = 1

\* C6 witness: the broadcasting loop of _zip has returned for an output of
\* several positions that is not laid out row-major.
C6_Witness ==
    /\ pc = "returned" /\ call.op = "_zip"
    /\ call.a.shape # call.b.shape
    /\ Len(out.storage) >= 4
    /\ out.strides # strides_from_shape(out.shape)

\* C7: the zip wrapper called with shapes that have a mismatching aligned pair
\* raises the error of shape_broadcast, with no output allocated, _zip not
\* invoked and both operands as they were.
C7_ZipRetMismatch ==
    (call.op = "zip" /\ Mismatch(call.a.shape, call.b.shape)) =>
        /\ pc = "raised"
        /\ err = "IndexingError"
        /\ ~allocated
        /\ ~invoked
        /\ out = NoTensor
        /\ ret = NoTensor
        /\ a = call.a
        /\ b = call.b

\* C7 witness: the wrapper has raised for two shapes of different rank whose
\* trailing extents differ.
C7_Witness ==
    /\ pc = "raised" /\ call.op = "zip"
    /\ Len(call.a.shape) # Len(call.b.shape)
    /\ Mismatch(call.a.shape, call.b.shape)

\* C8: matrix_multiply, through TensorOps, SimpleOps and the backend table,
\* raises NotImplementedError for every pair of arguments, returns no tensor
\* and leaves both arguments as they were.
C8_MatMulRaises ==
    (call.op \in MatMulEntries) =>
        /\ pc = "raised"
        /\ err = "NotImplementedError"
        /\ ret = NoTensor
        /\ ~allocated
        /\ a = call.a
        /\ b = call.b

\* C8 witness: the backend table's matrix_multiply was called on two tensors
\* whose shapes would multiply.
C8_Witness ==
    /\ call.op = "SimpleBackend.matrix_multiply"
    /\ pc = "raised"
    /\ Len(call.a.shape) = 2 /\ Len(call.b.shape) = 2
    /\ call.a.shape[2] = call.b.shape[1]

\* C9: when the three shapes are equal, the storage that _zip leaves (by its
\* equal-shapes loop) is the storage its broadcasting loop produces on the same
\* arguments.
C9_FastEqualsGeneral ==
    (pc = "returned" /\ call.op = "_zip"
       /\ call.a.shape = out.shape /\ call.b.shape = out.shape) =>
        out.storage =
            zip_general(ZipState(call.out.storage, call.a.storage, call.b.storage),
                        0, prod(call.out.shape), call.out.shape, call.out.strides,
                        call.a.shape, call.a.strides,
                        call.b.shape, call.b.strides).out

\* C9 witness: _zip has returned for three equal shapes of several elements in
\* three different layouts.
C9_Witness ==
    /\ pc = "returned" /\ call.op = "_zip"
    /\ call.a.shape = out.shape /\ call.b.shape = out.shape
    /\ Len(out.storage) >= 4
    /\ call.a.strides # call.b.strides
    /\ out.strides # call.a.strides

====
